---- MODULE Spec2Model ----
(***************************************************************************)
(* Model of scripts/validate-tokens.js: the reference grammar over the     *)
(* shared global regex, the token registry (a JS object holding both flat  *)
(* full-path keys and nested groups), and the two passes of                *)
(* validateAllTokens.                                                      *)
(*                                                                         *)
(* Strings are sequences of one-character strings, so that split('.'),     *)
(* slice, startsWith and the regex scan are computed as the code computes  *)
(* them.  JS objects live in a heap (a sequence of key -> value maps)      *)
(* because the registry stores references: the same token object is        *)
(* reachable from its flat key and from its parent group.                  *)
(***************************************************************************)
EXTENDS Integers, Sequences, FiniteSets, TLC

VARIABLES jsonFiles, heap, lastIndex, pc, idx, pending, results,
          tokenResults, stats, exitCode, call

vars == <<jsonFiles, heap, lastIndex, pc, idx, pending, results,
          tokenResults, stats, exitCode, call>>

----------------------------------------------------------------------------
(* JS values.  One record shape for all of them keeps values comparable.   *)

Undefined == [t |-> "undefined", s |-> <<>>, n |-> 0, e |-> <<>>]
Str(s) == [t |-> "str", s |-> s, n |-> 0, e |-> <<>>]
Num(n) == [t |-> "num", s |-> <<>>, n |-> n, e |-> <<>>]
Obj(e) == [t |-> "obj", s |-> <<>>, n |-> 0, e |-> e]
Ref(id) == [t |-> "ref", s |-> <<>>, n |-> id, e |-> <<>>]

(* Truthiness as the code's `if (x)` / `!x` tests use it. *)
Truthy(v) ==
  CASE v.t = "undefined" -> FALSE
    [] v.t = "str" -> v.s # <<>>
    [] v.t = "num" -> v.n # 0
    [] OTHER -> TRUE

(* typeof v === 'object' for a non-null, non-array value. *)
IsObject(v) == v.t \in {"obj", "ref"}

(* Property read on a parsed JSON node: node.key *)
Get(node, key) ==
  IF node.t = "obj" /\ \E i \in 1..Len(node.e) : node.e[i].k = key
  THEN node.e[CHOOSE i \in 1..Len(node.e) : node.e[i].k = key].v
  ELSE Undefined

(* Property read current[key] on a value held in the registry.  A         *)
(* primitive has none of the keys used here (identifiers, value, type).    *)
HGet(h, current, key) ==
  IF current.t = "ref" /\ key \in DOMAIN h[current.n]
  THEN h[current.n][key]
  ELSE Undefined

(* Assignment current[key] = v.  In sloppy mode an assignment to a         *)
(* property of a primitive is silently dropped.                            *)
HSet(h, current, key, v) ==
  IF current.t = "ref"
  THEN [h EXCEPT ![current.n] = (key :> v) @@ h[current.n]]
  ELSE h

KeyValue == <<"v","a","l","u","e">>
KeyType == <<"t","y","p","e">>

VALID_TOKEN_TYPES == {
    <<"c","o","l","o","r">>,
    <<"n","u","m","b","e","r">>,
    <<"s","t","r","i","n","g">>,
    <<"d","i","m","e","n","s","i","o","n">>,
    <<"f","o","n","t","F","a","m","i","l","y">>,
    <<"f","o","n","t","W","e","i","g","h","t">>,
    <<"f","o","n","t","S","i","z","e">>,
    <<"l","e","t","t","e","r","S","p","a","c","i","n","g">>,
    <<"l","i","n","e","H","e","i","g","h","t">>,
    <<"p","a","r","a","g","r","a","p","h","S","p","a","c","i","n","g">>,
    <<"t","e","x","t","C","a","s","e">>,
    <<"t","e","x","t","D","e","c","o","r","a","t","i","o","n">>,
    <<"o","t","h","e","r">>,
    <<"b","o","x","S","h","a","d","o","w">>,
    <<"t","e","x","t">>,
    <<"c","o","m","p","o","s","i","t","i","o","n">>,
    <<"b","o","r","d","e","r">>,
    <<"s","h","a","d","o","w">>,
    <<"a","s","s","e","t">>,
    <<"t","y","p","o","g","r","a","p","h","y">>,
    <<"o","p","a","c","i","t","y">>,
    <<"b","o","o","l","e","a","n">>,
    <<"s","p","a","c","i","n","g">>,
    <<"s","i","z","i","n","g">>,
    <<"r","a","d","i","u","s">>,
    <<"s","t","r","o","k","e">>,
    <<"e","f","f","e","c","t">>,
    <<"m","e","d","i","a">>,
    <<"l","a","y","o","u","t">> }

----------------------------------------------------------------------------
(* The reference grammar.                                                  *)

Braces == {"{", "}"}

(* One match of /\{([^{}]+)\}/ starting exactly at 1-based position p: the *)
(* position of the closing brace, or 0 when there is no match at p.        *)
MatchEnd(s, p) ==
  IF s[p] = "{" /\ \E q \in (p + 2)..Len(s) :
                      s[q] = "}" /\ \A r \in (p + 1)..(q - 1) : s[r] \notin Braces
  THEN CHOOSE q \in (p + 2)..Len(s) :
                      s[q] = "}" /\ \A r \in (p + 1)..(q - 1) : s[r] \notin Braces
  ELSE 0

(* TOKEN_REFERENCE_REGEX.exec(s) with the regex's lastIndex at li: the     *)
(* global flag makes the scan start at li and leave lastIndex after the    *)
(* match, or at 0 when nothing matches.                                    *)
TOKEN_REFERENCE_REGEX(s, li) ==
  LET starts == {p \in (li + 1)..Len(s) : MatchEnd(s, p) # 0}
  IN  IF starts = {}
      THEN [found |-> FALSE, group |-> <<>>, lastIndex |-> 0]
      ELSE LET p == CHOOSE m \in starts : \A o \in starts : m <= o
               q == MatchEnd(s, p)
           IN  [found |-> TRUE, group |-> SubSeq(s, p + 1, q - 1), lastIndex |-> q]

EXPRESSION_OPERATORS_REGEX(s) == \E i \in 1..Len(s) : s[i] \in {"+", "-", "*", "/"}

(* The test without its check for a nested opening brace. *)
isSimpleWithoutNestedCheck(value) ==
  /\ value.t = "str"
  /\ Len(value.s) >= 1
  /\ value.s[1] = "{"
  /\ value.s[Len(value.s)] = "}"

isSimpleTokenReference(value) ==
  /\ value.t = "str"
  /\ Len(value.s) >= 1
  /\ value.s[1] = "{"
  /\ value.s[Len(value.s)] = "}"
  /\ \A i \in 2..(Len(value.s) - 1) : value.s[i] # "{"

containsTokenReferences(value, li) ==
  IF value.t # "str"
  THEN [result |-> FALSE, lastIndex |-> li]
  ELSE LET m == TOKEN_REFERENCE_REGEX(value.s, li)
       IN  [result |-> m.found, lastIndex |-> m.lastIndex]

isExpression(value) == value.t = "str" /\ EXPRESSION_OPERATORS_REGEX(value.s)

RECURSIVE execLoop(_, _)
execLoop(s, li) ==
  LET m == TOKEN_REFERENCE_REGEX(s, li)
  IN  IF m.found
      THEN LET rest == execLoop(s, m.lastIndex)
           IN  [references |-> <<m.group>> \o rest.references,
                lastIndex |-> rest.lastIndex]
      ELSE [references |-> <<>>, lastIndex |-> m.lastIndex]

(* The loop without the reset of lastIndex before it. *)
extractWithoutReset(value, li) ==
  IF value.t # "str"
  THEN [references |-> <<>>, lastIndex |-> li]
  ELSE execLoop(value.s, li)

extractAllTokenReferences(value, li) ==
  IF value.t # "str"
  THEN [references |-> <<>>, lastIndex |-> li]
  ELSE execLoop(value.s, 0)

(* reference.slice(1, -1) *)
extractTokenName(reference) == SubSeq(reference, 2, Len(reference) - 1)

(* tokenName.split('.') *)
RECURSIVE split(_)
split(s) ==
  IF \E i \in 1..Len(s) : s[i] = "."
  THEN LET i == CHOOSE j \in 1..Len(s) : s[j] = "." /\ \A k \in 1..(j - 1) : s[k] # "."
       IN  <<SubSeq(s, 1, i - 1)>> \o split(SubSeq(s, i + 1, Len(s)))
  ELSE <<s>>

----------------------------------------------------------------------------
(* The registry: heap object 1.                                            *)

tokenRegistry == Ref(1)

RECURSIVE walkParts(_, _, _)
walkParts(h, current, parts) ==
  IF parts = <<>> THEN TRUE
  ELSE IF ~Truthy(HGet(h, current, Head(parts))) THEN FALSE
  ELSE walkParts(h, HGet(h, current, Head(parts)), Tail(parts))

(* Lines 183-197: the flat key first, then the walk through the groups. *)
registryLookup(h, tokenName) ==
  \/ Truthy(HGet(h, tokenRegistry, tokenName))
  \/ walkParts(h, tokenRegistry, split(tokenName))

tokenExists(h, tokenName, li) ==
  LET c == containsTokenReferences(Str(tokenName), li)
  IN  IF c.result
      THEN [result |-> TRUE, lastIndex |-> c.lastIndex]
      ELSE [result |-> registryLookup(h, tokenName), lastIndex |-> c.lastIndex]

(* Lines 217-235: the hierarchical registration of one token. *)
RECURSIVE registerHierarchy(_, _, _, _)
registerHierarchy(h, current, parts, value) ==
  LET part == Head(parts)
      c == HGet(h, current, part)
  IN  IF Len(parts) = 1
      THEN IF ~Truthy(c) \/ ~IsObject(c) \/ HGet(h, c, KeyValue) = Undefined
           THEN HSet(h, current, part, value)
           ELSE h
      ELSE LET h2 == IF ~Truthy(c)
                     THEN HSet(Append(h, <<>>), current, part, Ref(Len(h) + 1))
                     ELSE h
           IN  registerHierarchy(h2, HGet(h2, current, part), Tail(parts), value)

(* Lines 212-235: the flat key is assigned unconditionally. *)
registerToken(h, tokenPath, value) ==
  registerHierarchy(HSet(h, tokenRegistry, tokenPath, value),
                    tokenRegistry, split(tokenPath), value)

(* The traversal of registerNestedTokens: the leaves it registers, in      *)
(* Object.entries order, each with its dotted path.                        *)
RECURSIVE registerNestedTokens(_, _)
registerNestedTokens(entries, prefix) ==
  IF entries = <<>> THEN <<>>
  ELSE LET key == Head(entries).k
           value == Head(entries).v
           tokenPath == IF prefix # <<>> THEN prefix \o <<".">> \o key ELSE key
           here == IF value.t = "obj"
                   THEN IF Get(value, KeyValue) # Undefined /\ Get(value, KeyType) # Undefined
                        THEN << [path |-> tokenPath, node |-> value] >>
                        ELSE registerNestedTokens(value.e, tokenPath)
                   ELSE <<>>
       IN  here \o registerNestedTokens(Tail(entries), prefix)

(* JSON.parse creates one fresh object per leaf; its fields are primitives. *)
objectOf(node) == [k \in {node.e[i].k : i \in 1..Len(node.e)} |-> Get(node, k)]

RECURSIVE allocate(_, _)
allocate(h, leaves) ==
  IF leaves = <<>> THEN h
  ELSE allocate(Append(h, objectOf(Head(leaves).node)), Tail(leaves))

RECURSIVE registerLeaves(_, _, _)
registerLeaves(h, leaves, id) ==
  IF leaves = <<>> THEN h
  ELSE registerLeaves(registerToken(h, Head(leaves).path, Ref(id)), Tail(leaves), id + 1)

(* registerTokens on a freshly parsed tree: the leaf objects of the tree   *)
(* take the heap ids after the current ones.                               *)
registerTokens(h, tokens) ==
  LET leaves == registerNestedTokens(tokens.e, <<>>)
  IN  registerLeaves(allocate(h, leaves), leaves, Len(h) + 1)

----------------------------------------------------------------------------
(* validateToken.                                                          *)

Finding(kind, tokenPath, ref) == [kind |-> kind, tokenPath |-> tokenPath, ref |-> ref]

(* Lines 287-300: the loop over the extracted references. *)
RECURSIVE checkReferences(_, _, _, _, _)
checkReferences(h, tokenPath, value, references, li) ==
  IF references = <<>> THEN [errors |-> <<>>, lastIndex |-> li]
  ELSE LET ref == Head(references)
           nested == containsTokenReferences(Str(ref), li)
       IN  IF nested.result
           THEN checkReferences(h, tokenPath, value, Tail(references), nested.lastIndex)
           ELSE LET ex == tokenExists(h, ref, nested.lastIndex)
                    rest == checkReferences(h, tokenPath, value, Tail(references), ex.lastIndex)
                IN  [errors |-> (IF ~ex.result /\ ~isExpression(value)
                                 THEN << Finding("unresolved", tokenPath, ref) >>
                                 ELSE <<>>) \o rest.errors,
                     lastIndex |-> rest.lastIndex]

validateToken(h, tokenPath, token, li) ==
  LET value == HGet(h, token, KeyValue)
      type == HGet(h, token, KeyType)
      fieldErrors ==
        (IF value = Undefined THEN << Finding("noValue", tokenPath, <<>>) >> ELSE <<>>)
        \o (IF type = Undefined THEN << Finding("noType", tokenPath, <<>>) >> ELSE <<>>)
      warnings ==
        IF type # Undefined /\ ~(type.t = "str" /\ type.s \in VALID_TOKEN_TYPES)
        THEN << Finding("nonStandardType", tokenPath, type.s) >>
        ELSE <<>>
      checked ==
        IF value = Undefined THEN [errors |-> <<>>, lastIndex |-> li]
        ELSE IF isSimpleTokenReference(value)
        THEN LET referencedToken == extractTokenName(value.s)
                 ex == tokenExists(h, referencedToken, li)
             IN  [errors |-> IF ~ex.result
                             THEN << Finding("unresolved", tokenPath, referencedToken) >>
                             ELSE <<>>,
                  lastIndex |-> ex.lastIndex]
        ELSE LET c == containsTokenReferences(value, li)
             IN  IF c.result
                 THEN LET x == extractAllTokenReferences(value, c.lastIndex)
                      IN  checkReferences(h, tokenPath, value, x.references, x.lastIndex)
                 ELSE [errors |-> <<>>, lastIndex |-> c.lastIndex]
  IN  [errors |-> fieldErrors \o checked.errors,
       warnings |-> warnings,
       lastIndex |-> checked.lastIndex,
       referencesChecked |-> IF value # Undefined THEN 1 ELSE 0]

(* The traversal of validateNestedTokens: the leaves handed to             *)
(* validateToken, in order.                                                *)
RECURSIVE validateNestedTokens(_, _)
validateNestedTokens(entries, prefix) ==
  IF entries = <<>> THEN <<>>
  ELSE LET key == Head(entries).k
           value == Head(entries).v
           tokenPath == IF prefix # <<>> THEN prefix \o <<".">> \o key ELSE key
           here == IF value.t = "obj"
                   THEN IF Get(value, KeyValue) # Undefined /\ Get(value, KeyType) # Undefined
                        THEN << [path |-> tokenPath, node |-> value] >>
                        ELSE validateNestedTokens(value.e, tokenPath)
                   ELSE <<>>
       IN  here \o validateNestedTokens(Tail(entries), prefix)

----------------------------------------------------------------------------
(* The input files.                                                        *)

NumFiles == 2
MaxLen == 3

A == <<"a">>
B == <<"b">>
Color == <<"c","o","l","o","r">>

Entry(k, v) == [k |-> k, v |-> v]
Token(v) == Obj(<< Entry(KeyValue, v), Entry(KeyType, Str(Color)) >>)
NoTypeNode == Obj(<< Entry(KeyValue, Str(<<"x">>)) >>)
OddToken == Obj(<< Entry(KeyValue, Str(<<"x">>)), Entry(KeyType, Str(<<"o","d","d">>)) >>)

RefA == Str(<<"{","a","}">>)
RefB == Str(<<"{","b","}">>)
RefAB == Str(<<"{","a",".","b","}">>)
RefAValue == Str(<<"{","a",".","v","a","l","u","e","}">>)
Composite == Str(<<"{","a","}","{","b","}">>)
CompositeExpr == Str(<<"{","a","}","+","{","b","}">>)
Nested == Str(<<"{","a",".","{","b","}","}">>)
Literal == Str(<<"x">>)
LiteralExpr == Str(<<"x","+">>)

TokenValues == {Literal, LiteralExpr, RefA, RefB, RefAB, RefAValue,
                Composite, CompositeExpr, Nested, Num(1)}
PairValues == {RefA, RefB}

(* The leaves tried at the paths a, b and a.b. *)
LeavesAtA == {Token(v) : v \in TokenValues} \cup {NoTypeNode, OddToken}
LeavesAtB == {Token(v) : v \in {Literal, RefA, RefAB, RefAValue, Composite,
                                 CompositeExpr, Nested}} \cup {NoTypeNode}
LeavesAtAB == {Token(v) : v \in {Literal, LiteralExpr, RefA, RefB, Composite}}

BadJson == Undefined

Contents ==
  {Obj(<< Entry(A, l) >>) : l \in LeavesAtA}
  \cup {Obj(<< Entry(B, l) >>) : l \in LeavesAtB}
  \cup {Obj(<< Entry(A, Obj(<< Entry(B, l) >>)) >>) : l \in LeavesAtAB}
  \cup {Obj(<< Entry(A, Token(v)), Entry(B, Token(w)) >>) : v \in PairValues, w \in PairValues}
  \cup {BadJson}

CommonContents ==
  {Obj(<< Entry(A, Token(Literal)) >>),
   Obj(<< Entry(A, Obj(<< Entry(B, Token(LiteralExpr)) >>)) >>),
   Obj(<< Entry(B, Token(Literal)) >>)}

FileSet ==
  {[dir |-> "other", content |-> c] : c \in Contents}
  \cup {[dir |-> "common", content |-> c] : c \in CommonContents}

getPriority(file) ==
  CASE file.dir = "common" -> 1
    [] file.dir = "shared" -> 2
    [] file.dir = "component" -> 3
    [] OTHER -> 4

ofPriority(files, p) == SelectSeq(files, LAMBDA f : getPriority(f) = p)

(* Array.prototype.sort is stable: files of equal priority keep their order. *)
sortJsonFilesByPriority(files) ==
  ofPriority(files, 1) \o ofPriority(files, 2) \o ofPriority(files, 3) \o ofPriority(files, 4)

sortedFiles == sortJsonFilesByPriority(jsonFiles)

(* Pass 1 skipped: registration left to validateTokenFile alone. *)
pass1Skipped == <<>>

(* The files the first pass iterates over. *)
pass1Files == sortedFiles

parses(file) == file.content # BadJson

----------------------------------------------------------------------------
(* The run.                                                                *)

NoCall == [fn |-> "none", arg |-> Undefined, result |-> FALSE, references |-> <<>>]
NoTokenResults == [called |-> FALSE, file |-> 0, tokenPath |-> <<>>, value |-> Undefined,
                   errors |-> <<>>, warnings |-> <<>>]

Init ==
  /\ jsonFiles \in [1..NumFiles -> FileSet]
  /\ heap = << <<>> >>
  /\ lastIndex = 0
  /\ pc = "pass1"
  /\ idx = 1
  /\ pending = <<>>
  /\ results = <<>>
  /\ tokenResults = NoTokenResults
  /\ stats = [filesChecked |-> 0, tokensChecked |-> 0, referencesChecked |-> 0,
              errors |-> 0, warnings |-> 0]
  /\ exitCode = -1
  /\ call = NoCall

(* Lines 397-405: one iteration of the first pass. *)
RegisterFile ==
  /\ pc = "pass1"
  /\ idx <= Len(pass1Files)
  /\ heap' = IF parses(pass1Files[idx])
             THEN registerTokens(heap, pass1Files[idx].content)
             ELSE heap
  /\ idx' = idx + 1
  /\ UNCHANGED <<jsonFiles, lastIndex, pc, pending, results, tokenResults,
                 stats, exitCode, call>>

(* Line 408: the first pass is over, the second begins. *)
StartPass2 ==
  /\ pc = "pass1"
  /\ idx > Len(pass1Files)
  /\ pc' = "pass2"
  /\ idx' = 1
  /\ UNCHANGED <<jsonFiles, heap, lastIndex, pending, results, tokenResults,
                 stats, exitCode, call>>

RECURSIVE withIds(_, _)
withIds(leaves, id) ==
  IF leaves = <<>> THEN <<>>
  ELSE << [path |-> Head(leaves).path, token |-> Ref(id)] >> \o withIds(Tail(leaves), id + 1)

(* Lines 409-410, 314-333: validateTokenFile up to its traversal. *)
validateTokenFile ==
  /\ pc = "pass2"
  /\ idx <= Len(sortedFiles)
  /\ stats' = [stats EXCEPT !.filesChecked = @ + 1]
  /\ IF parses(sortedFiles[idx])
     THEN /\ heap' = registerTokens(heap, sortedFiles[idx].content)
          /\ pending' = withIds(validateNestedTokens(sortedFiles[idx].content.e, <<>>),
                                Len(heap) + 1)
          /\ results' = Append(results, [errors |-> <<>>, warnings |-> <<>>])
     ELSE /\ heap' = heap
          /\ pending' = <<>>
          /\ results' = Append(results, [errors |-> << Finding("invalidJson", <<>>, <<>>) >>,
                                         warnings |-> <<>>])
  /\ pc' = "validating"
  /\ UNCHANGED <<jsonFiles, lastIndex, idx, tokenResults, exitCode, call>>

(* Lines 343-346: one leaf of the traversal. *)
ValidateOneToken ==
  /\ pc = "validating"
  /\ pending # <<>>
  /\ LET t == Head(pending)
         r == validateToken(heap, t.path, t.token, lastIndex)
     IN  /\ tokenResults' = [called |-> TRUE, file |-> idx, tokenPath |-> t.path,
                             value |-> HGet(heap, t.token, KeyValue),
                             errors |-> r.errors, warnings |-> r.warnings]
         /\ results' = [results EXCEPT ![idx] =
                          [errors |-> @.errors \o r.errors,
                           warnings |-> @.warnings \o r.warnings]]
         /\ lastIndex' = r.lastIndex
         /\ stats' = [stats EXCEPT !.tokensChecked = @ + 1,
                                   !.referencesChecked = @ + r.referencesChecked]
  /\ pending' = Tail(pending)
  /\ UNCHANGED <<jsonFiles, heap, pc, idx, exitCode, call>>

(* Line 361: validateTokenFile returns; the map moves to the next file. *)
FileValidated ==
  /\ pc = "validating"
  /\ pending = <<>>
  /\ idx' = idx + 1
  /\ pc' = IF idx < Len(sortedFiles) THEN "pass2" ELSE "report"
  /\ UNCHANGED <<jsonFiles, heap, lastIndex, pending, results, tokenResults,
                 stats, exitCode, call>>

RECURSIVE sumFindings(_, _)
sumFindings(rs, field) ==
  IF rs = <<>> THEN 0
  ELSE (IF field = "errors" THEN Len(Head(rs).errors) ELSE Len(Head(rs).warnings))
       + sumFindings(Tail(rs), field)

(* Lines 413-501: the totals and the exit code. *)
Report ==
  /\ pc = "report"
  /\ stats' = [stats EXCEPT !.errors = sumFindings(results, "errors"),
                            !.warnings = sumFindings(results, "warnings")]
  /\ exitCode' = IF sumFindings(results, "errors") > 0 THEN 1 ELSE 0
  /\ pc' = "done"
  /\ UNCHANGED <<jsonFiles, heap, lastIndex, idx, pending, results, tokenResults, call>>

Next ==
  \/ RegisterFile
  \/ StartPass2
  \/ validateTokenFile
  \/ ValidateOneToken
  \/ FileValidated
  \/ Report

Spec == Init /\ [][Next]_vars

----------------------------------------------------------------------------
(* The grammar functions called on their own, in any order, on any string. *)

Alphabet == {"{", "}", "a", "+"}
GrammarStrings == UNION {[1..n -> Alphabet] : n \in 0..MaxLen}
GrammarArgs == {Str(s) : s \in GrammarStrings} \cup {Num(1)}

GrammarInit ==
  /\ jsonFiles = <<>>
  /\ heap = << <<>> >>
  /\ lastIndex = 0
  /\ pc = "grammar"
  /\ idx = 1
  /\ pending = <<>>
  /\ results = <<>>
  /\ tokenResults = NoTokenResults
  /\ stats = [filesChecked |-> 0, tokensChecked |-> 0, referencesChecked |-> 0,
              errors |-> 0, warnings |-> 0]
  /\ exitCode = -1
  /\ call = NoCall

CallIsSimpleTokenReference ==
  /\ pc = "grammar"
  /\ \E v \in GrammarArgs :
       call' = [fn |-> "isSimpleTokenReference", arg |-> v,
                result |-> isSimpleTokenReference(v), references |-> <<>>]
  /\ UNCHANGED <<jsonFiles, heap, lastIndex, pc, idx, pending, results,
                 tokenResults, stats, exitCode>>

CallContainsTokenReferences ==
  /\ pc = "grammar"
  /\ \E v \in GrammarArgs :
       LET c == containsTokenReferences(v, lastIndex)
       IN  /\ call' = [fn |-> "containsTokenReferences", arg |-> v,
                       result |-> c.result, references |-> <<>>]
           /\ lastIndex' = c.lastIndex
  /\ UNCHANGED <<jsonFiles, heap, pc, idx, pending, results, tokenResults,
                 stats, exitCode>>

CallIsExpression ==
  /\ pc = "grammar"
  /\ \E v \in GrammarArgs :
       call' = [fn |-> "isExpression", arg |-> v,
                result |-> isExpression(v), references |-> <<>>]
  /\ UNCHANGED <<jsonFiles, heap, lastIndex, pc, idx, pending, results,
                 tokenResults, stats, exitCode>>

CallExtractAllTokenReferences ==
  /\ pc = "grammar"
  /\ \E v \in GrammarArgs :
       LET x == extractAllTokenReferences(v, lastIndex)
       IN  /\ call' = [fn |-> "extractAllTokenReferences", arg |-> v,
                       result |-> x.references # <<>>, references |-> x.references]
           /\ lastIndex' = x.lastIndex
  /\ UNCHANGED <<jsonFiles, heap, pc, idx, pending, results, tokenResults,
                 stats, exitCode>>

GrammarNext ==
  \/ CallIsSimpleTokenReference
  \/ CallContainsTokenReferences
  \/ CallIsExpression
  \/ CallExtractAllTokenReferences

GrammarSpec == GrammarInit /\ [][GrammarNext]_vars

----------------------------------------------------------------------------
(* What the properties speak of.                                           *)

leavesOf(file) ==
  IF parses(file) THEN registerNestedTokens(file.content.e, <<>>) ELSE <<>>

TokenPathsOf(file) == {leavesOf(file)[i].path : i \in 1..Len(leavesOf(file))}

(* The dotted paths of the tokens of all input files. *)
AllTokenPaths == UNION {TokenPathsOf(jsonFiles[i]) : i \in 1..Len(jsonFiles)}

(* The values the input files give to the token at path p. *)
ValuesAt(p) ==
  {Get(leavesOf(jsonFiles[i])[j].node, KeyValue) :
     <<i, j>> \in {<<i, j>> \in (1..Len(jsonFiles)) \X (1..4) :
                     j <= Len(leavesOf(jsonFiles[i])) /\ leavesOf(jsonFiles[i])[j].path = p}}

Unresolved(errors) == SelectSeq(errors, LAMBDA f : f.kind = "unresolved")

(* A string has a span {name} with a non-empty, brace-free name. *)
SpanAt(s, p, q) ==
  /\ p + 1 < q
  /\ s[p] = "{"
  /\ s[q] = "}"
  /\ \A r \in (p + 1)..(q - 1) : s[r] \notin Braces

EmbeddedNames(s) ==
  {SubSeq(s, pq[1] + 1, pq[2] - 1) :
     pq \in {pq \in (1..Len(s)) \X (1..Len(s)) : SpanAt(s, pq[1], pq[2])}}

HasSpan(s) == EmbeddedNames(s) # {}

HasOperator(s) == \E i \in 1..Len(s) : s[i] \in {"+", "-", "*", "/"}

(* The files registered so far, in registration order. *)
RegisteredFiles ==
  IF pc = "pass1" THEN SubSeq(sortedFiles, 1, idx - 1) ELSE sortedFiles

(* The entry under the flat full-path key, and the entry at the end of the *)
(* stepwise walk.                                                          *)
FlatEntry(p) == HGet(heap, tokenRegistry, p)

RECURSIVE walkEntry(_, _)
walkEntry(current, parts) ==
  IF parts = <<>> THEN current
  ELSE walkEntry(HGet(heap, current, Head(parts)), Tail(parts))

HierarchicalEntry(p) == walkEntry(tokenRegistry, split(p))

Definition(entry) ==
  [value |-> HGet(heap, entry, KeyValue), type |-> HGet(heap, entry, KeyType)]

DefinitionIn(file, p) ==
  LET l == leavesOf(file)
      j == CHOOSE j \in 1..Len(l) : l[j].path = p
  IN  [value |-> Get(l[j].node, KeyValue), type |-> Get(l[j].node, KeyType)]

(* The definition the first registration of p gave it. *)
FirstDefinition(p) ==
  LET i == CHOOSE i \in 1..Len(RegisteredFiles) :
             /\ p \in TokenPathsOf(RegisteredFiles[i])
             /\ \A k \in 1..(i - 1) : p \notin TokenPathsOf(RegisteredFiles[k])
  IN  DefinitionIn(RegisteredFiles[i], p)

RegisteredPaths == UNION {TokenPathsOf(RegisteredFiles[i]) : i \in 1..Len(RegisteredFiles)}

ConflictingPaths ==
  {p \in RegisteredPaths :
     \E i, k \in 1..Len(RegisteredFiles) :
        /\ p \in TokenPathsOf(RegisteredFiles[i])
        /\ p \in TokenPathsOf(RegisteredFiles[k])
        /\ DefinitionIn(RegisteredFiles[i], p) # DefinitionIn(RegisteredFiles[k], p)}

(* Every object node of a tree, with its dotted path. *)
RECURSIVE objectNodes(_, _)
objectNodes(entries, prefix) ==
  IF entries = <<>> THEN {}
  ELSE LET key == Head(entries).k
           value == Head(entries).v
           path == IF prefix # <<>> THEN prefix \o <<".">> \o key ELSE key
       IN  (IF value.t = "obj"
            THEN {[path |-> path, node |-> value]} \cup objectNodes(value.e, path)
            ELSE {})
           \cup objectNodes(Tail(entries), prefix)

ValueWithoutType(file) ==
  IF parses(file)
  THEN {n \in objectNodes(file.content.e, <<>>) :
          Get(n.node, KeyValue) # Undefined /\ Get(n.node, KeyType) = Undefined}
  ELSE {}

(* The whole content of the registry, by value. *)
RECURSIVE snapshot(_, _)
snapshot(h, v) ==
  IF v.t = "ref"
  THEN [t |-> "obj", s |-> <<>>, n |-> 0,
        e |-> {<<k, snapshot(h, h[v.n][k])>> : k \in DOMAIN h[v.n]}]
  ELSE [t |-> v.t, s |-> v.s, n |-> v.n, e |-> {}]

RegistryContent == snapshot(heap, tokenRegistry)
RegistryContentNext == snapshot(heap', tokenRegistry)

SimpleReferenceChecked ==
  tokenResults.called /\ isSimpleTokenReference(tokenResults.value)

ReferencedName == extractTokenName(tokenResults.value.s)

CompositeChecked ==
  /\ tokenResults.called
  /\ tokenResults.value.t = "str"
  /\ ~isSimpleTokenReference(tokenResults.value)
  /\ HasSpan(tokenResults.value.s)

----------------------------------------------------------------------------
(* C1: a token whose value is a simple reference {p}, p not the path of    *)
(* any token of any input file, gets exactly one unresolved-reference      *)
(* error, naming p.                                                        *)
C1_UnresolvedSimpleReference ==
  (SimpleReferenceChecked /\ ReferencedName \notin AllTokenPaths)
  => Unresolved(tokenResults.errors)
       = << Finding("unresolved", tokenResults.tokenPath, ReferencedName) >>

(* C2: once the run has validated the files, every node with a value field *)
(* and no type field has a missing-type error for its path in its file's   *)
(* results.                                                                *)
C2_MissingTypeReported ==
  pc \in {"report", "done"}
  => \A i \in 1..Len(sortedFiles) :
       \A n \in ValueWithoutType(sortedFiles[i]) :
         \E j \in 1..Len(results[i].errors) :
           results[i].errors[j] = Finding("noType", n.path, <<>>)

(* C3: a path registered more than once with different definitions holds   *)
(* the definition of its first registration under the flat key and under   *)
(* the stepwise walk.                                                      *)
C3_FirstRegistrationWins ==
  \A p \in ConflictingPaths :
    /\ Definition(FlatEntry(p)) = FirstDefinition(p)
    /\ Definition(HierarchicalEntry(p)) = FirstDefinition(p)

(* C4 as stated: every embedded name absent from the registry yields an    *)
(* unresolved-reference error, with or without an operator character in    *)
(* the value.                                                              *)
C4_EmbeddedReferencesChecked ==
  CompositeChecked
  => \A name \in EmbeddedNames(tokenResults.value.s) :
       ~registryLookup(heap, name)
       => \E j \in 1..Len(tokenResults.errors) :
            tokenResults.errors[j] = Finding("unresolved", tokenResults.tokenPath, name)

(* C4 amended: every embedded name absent from the registry yields an      *)
(* unresolved-reference error, provided the value contains none of the     *)
(* characters + - * /.                                                     *)
C4_EmbeddedReferencesCheckedWithoutOperator ==
  (CompositeChecked /\ ~HasOperator(tokenResults.value.s))
  => \A name \in EmbeddedNames(tokenResults.value.s) :
       ~registryLookup(heap, name)
       => \E j \in 1..Len(tokenResults.errors) :
            tokenResults.errors[j] = Finding("unresolved", tokenResults.tokenPath, name)

C4_Witness ==
  /\ CompositeChecked
  /\ ~HasOperator(tokenResults.value.s)
  /\ \E name \in EmbeddedNames(tokenResults.value.s) : ~registryLookup(heap, name)
  /\ \E name \in EmbeddedNames(tokenResults.value.s) : registryLookup(heap, name)
  /\ Len(Unresolved(tokenResults.errors)) = 1

(* C5: from the start of pass 2 to the end of the run no step changes the  *)
(* content of the registry.                                                *)
C5_RegistryReadOnlyInPass2 ==
  [][(pc \in {"pass2", "validating", "report"}) => (RegistryContentNext = RegistryContent)]_vars

(* C6: for every path of a registered token, the flat entry and the entry  *)
(* at the end of the stepwise walk denote the same definition.             *)
C6_ViewsAgree ==
  \A p \in RegisteredPaths :
    Definition(FlatEntry(p)) = Definition(HierarchicalEntry(p))

C8_CycleReportedUnresolved ==
  (/\ SimpleReferenceChecked
   /\ ReferencedName # tokenResults.tokenPath
   /\ ValuesAt(tokenResults.tokenPath) = {tokenResults.value}
   /\ ValuesAt(ReferencedName) = {Str(<<"{">> \o tokenResults.tokenPath \o <<"}">>)})
  => Unresolved(tokenResults.errors) # <<>>

(* C9: containsTokenReferences returns true exactly when its argument      *)
(* contains a {...} span, whatever calls came before.                      *)
C9_ContainsIsPure ==
  call.fn = "containsTokenReferences"
  => (call.result <=> (call.arg.t = "str" /\ HasSpan(call.arg.s)))

(* C10: the scan position of the shared regex is 0 every time              *)
(* validateToken starts on a token.                                        *)
C10_LastIndexZeroAtValidateToken ==
  (pc = "validating" /\ pending # <<>>) => lastIndex = 0

C10_Witness ==
  /\ pc = "validating"
  /\ pending # <<>>
  /\ CompositeChecked
  /\ lastIndex = 0

====
